---- MODULE Spec2Model ----
(***************************************************************************)
(* A model of the AIS Fleet Signal K plugin (src/plugin/index.js): the     *)
(* vessel registry (vesselData), the cloud-provenance set (cloudVessels),  *)
(* the ingest callback (handleVesselUpdate), the reporting cycle           *)
(* (submitVesselData / submitBatch), the cloud-sync cycle                  *)
(* (fetchNearbyVessels / processCloudVessels / sendVesselData) and the     *)
(* plugin lifecycle (start / stop).                                        *)
(*                                                                         *)
(* JavaScript strings that the code inspects (contexts, vessel ids, MMSI   *)
(* values) are sequences of tokens, so that concatenation, the regular     *)
(* expression /^vessels\.(.+)$/ and String.includes are computed and not   *)
(* assumed.  JavaScript values are tagged records [t, a, b].  Times are    *)
(* milliseconds; a timestamp 0 stands for an absent (falsy) timestamp and  *)
(* NaN for the result of parsing a string that is not a date.              *)
(*                                                                         *)
(* One action is one run of a handler between two points where the event   *)
(* loop can run something else (an await of a request or of a timer).      *)
(***************************************************************************)
EXTENDS Integers, Sequences, FiniteSets, TLC

VARIABLES
    timer,          \* interval (ms) of the reporting timer, 0 when the handle is null
    nearbyTimer,    \* interval (ms) of the nearby-fetch timer, 0 when the handle is null
    unsubscribes,   \* number of unsubscribe functions held (bus subscription active iff > 0)
    radiusNm,       \* the configured search radius
    vesselData,     \* the registry: a Map, here the sequence of its values in insertion order
    cloudVessels,   \* the cloud-provenance set (vessel ids)
    now,            \* Date.now()
    submits,        \* the submitVesselData invocations in flight
    fetches,        \* the fetchNearbyVessels invocations in flight
    bus,            \* deltas handed to app.handleMessage and not yet delivered to subscribers
    starts,         \* how many times plugin.start has run
    hist,           \* per vessel id: when an ingest event last passed the throttle, and
                    \* the delta last applied to the record the registry holds now
    lastOp          \* what the step that led to this state did (observation only)

vars == <<timer, nearbyTimer, unsubscribes, radiusNm, vesselData, cloudVessels,
          now, submits, fetches, bus, starts, hist, lastOp>>

(***************************************************************************)
(* Program constants                                                       *)
(***************************************************************************)
REQUEST_TIMEOUT == 30000
throttleMs == 2000
maxAge == 24 * 60 * 60 * 1000
twoMinutes == 2 * 60 * 1000
batchDelayMs == 1000
pauseMs == 100
\* The source submits in batches of 100 and pauses every 50 processed vessels.
\* Both are scaled to the size of the registries the model explores; every
\* formula below is stated in terms of batchSize and pauseEvery.
batchSize == 2
pauseEvery == 4

(***************************************************************************)
(* Bounds of the model                                                     *)
(***************************************************************************)
NumInstants == 4    \* number of clock readings after the first
MaxResp == 2        \* longest vessels array of a nearby response
MaxStarts == 1      \* how many times the plugin is started
IngestInstants == 2 \* clock readings after the first where ingest is studied
MaxBus == 0         \* re-injected deltas waiting on the bus when a response arrives

\* Date.now() when the plugin is constructed (any value above maxAge, so that
\* timestamps older than 24 hours exist).
T0 == 2 * maxAge
NaN == -1

\* The clock readings: gaps below the 2 s throttle, above it, above two
\* minutes and above 24 hours.
Offset(k) ==
    CASE k = 0 -> 0
      [] k = 1 -> 500
      [] k = 2 -> 2100
      [] k = 3 -> twoMinutes + 2100
      [] OTHER -> (k - 3) * (maxAge + 1) + twoMinutes + 2100

InstantsOf(ks) == {T0 + Offset(k) : k \in ks}

(***************************************************************************)
(* JavaScript strings and values                                           *)
(***************************************************************************)
VESSELS == "vessels."
URN == "urn:mrn:imo:mmsi:"

\* String.prototype.includes for a needle that is one token
Includes(s, tok) == \E i \in 1..Len(s) : s[i] = tok

\* String.prototype.startsWith for a prefix that is one token
StartsWith(s, tok) == Len(s) >= 1 /\ s[1] = tok

\* delta.context.match(/^vessels\.(.+)$/): the captured group, <<>> when no match
ContextMatch(context) ==
    IF StartsWith(context, VESSELS) /\ Len(context) >= 2 THEN Tail(context) ELSE <<>>

\* The identifier test of handleVesselUpdate (line 119) and submitVesselData (line 264)
InvalidId(vesselId) ==
    \/ vesselId = <<>>
    \/ vesselId = <<"undefined">>
    \/ vesselId = <<"null">>
    \/ Includes(vesselId, "undefined")

Undefined == [t |-> "undefined", a |-> 0, b |-> 0]
Null == [t |-> "null", a |-> 0, b |-> 0]
Num(n) == [t |-> "number", a |-> n, b |-> 0]
Str(n) == [t |-> "string", a |-> n, b |-> 0]
NotANumber == [t |-> "NaN", a |-> 0, b |-> 0]
Position(lat, lon) == [t |-> "{latitude,longitude}", a |-> lat, b |-> lon]
Overall(x) == [t |-> "{overall}", a |-> x, b |-> 0]
Maximum(x) == [t |-> "{maximum}", a |-> x, b |-> 0]

\* JSON.stringify as far as the comparison of line 159 can tell values apart:
\* NaN is written as null, everything else by its own text.
JSONstringify(v) == IF v.t = "NaN" THEN Null ELSE v

\* JavaScript truthiness of a value
Truthy(v) ==
    CASE v.t \in {"undefined", "null", "NaN"} -> FALSE
      [] v.t = "number" -> v.a # 0
      [] v.t = "string" -> v.a # 0      \* string 0 is the empty string
      [] OTHER -> TRUE

CLOUD_SOURCE == "aisfleet-cloud"              \* the string written by processCloudVessels
CLOUD_LABEL == "{label:aisfleet-cloud}"       \* the source object of a re-injected delta

(***************************************************************************)
(* The registry: a Map keyed by vessel id                                  *)
(***************************************************************************)
Has(reg, id) == \E i \in 1..Len(reg) : reg[i].id = id
IndexOf(reg, id) == CHOOSE i \in 1..Len(reg) : reg[i].id = id
Get(reg, id) == reg[IndexOf(reg, id)]
\* vesselData.set keeping the fields of the record it replaces
MapSetMerging(reg, id, rec) ==
    IF Has(reg, id)
    THEN [reg EXCEPT ![IndexOf(reg, id)] = [rec EXCEPT !.data = rec.data @@ Get(reg, id).data]]
    ELSE Append(reg, rec)

MapSet(reg, id, rec) ==
    IF Has(reg, id) THEN [reg EXCEPT ![IndexOf(reg, id)] = rec] ELSE Append(reg, rec)
MapDelete(reg, id) == SelectSeq(reg, LAMBDA r : r.id # id)
Keys(reg) == {reg[i].id : i \in 1..Len(reg)}

NoData == [p \in {} |-> Undefined]

NoDelta == [context |-> <<>>, hasUpdates |-> FALSE, updates |-> <<>>]

NoHist == [time |-> 0, delta |-> NoDelta]

\* the record objects of ids are gone from the registry or replaced there
Forgotten(h, ids) ==
    [id \in DOMAIN h |-> IF id \in ids THEN [h[id] EXCEPT !.delta = NoDelta] ELSE h[id]]

\* The observation record of a step: which handler ran (kind), on which vessel
\* or delta, and the values of the handler's locals that no variable keeps.
\* the counters of processCloudVessels (lines 437-440)
NoCounts == [processed |-> 0, skipped |-> 0, localDataPreferred |-> 0, updated |-> 0]

Op(kind) == [kind |-> kind, id |-> <<>>, delta |-> NoDelta, accepted |-> FALSE,
             updateCount |-> 0, repeat |-> FALSE, batch |-> <<>>, n |-> 0,
             via |-> "", sent |-> <<>>, total |-> 0, counts |-> NoCounts,
             written |-> <<>>, since |-> 0, evicted |-> {},
             settings |-> [intervalMinutes |-> 0, radiusNauticalMiles |-> 0],
             list |-> <<>>, paused |-> FALSE, throws |-> {},
             env |-> [position |-> Undefined, positionThrows |-> FALSE, selfId |-> <<>>,
                      mmsi |-> <<>>, mmsiThrows |-> FALSE]]

(***************************************************************************)
(* Records of the active set of a reporting cycle are references to the    *)
(* registry's objects: handleVesselUpdate mutates a record in place, so a  *)
(* snapshot entry follows the registry's record (live) until the registry  *)
(* drops or replaces that object.                                          *)
(***************************************************************************)
Mutated(subs, id, rec) ==
    [c \in DOMAIN subs |->
        [subs[c] EXCEPT !.activeVessels =
            [k \in DOMAIN subs[c].activeVessels |->
                LET e == subs[c].activeVessels[k]
                IN IF e.live /\ e.rec.id = id THEN [e EXCEPT !.rec = rec] ELSE e]]]

Dropped(subs, ids) ==
    [c \in DOMAIN subs |->
        [subs[c] EXCEPT !.activeVessels =
            [k \in DOMAIN subs[c].activeVessels |->
                LET e == subs[c].activeVessels[k]
                IN IF e.rec.id \in ids THEN [e EXCEPT !.live = FALSE] ELSE e]]]

(***************************************************************************)
(* handleVesselUpdate (lines 109-172)                                      *)
(***************************************************************************)
\* line 159 with the values compared by identity (!==): two objects differ
ValueChangedByIdentity(currentValue, value) ==
    \/ currentValue # value
    \/ value.t \in {"{latitude,longitude}", "{overall}", "{maximum}", "NaN"}

\* line 159: JSON.stringify(currentData.value) !== JSON.stringify(value.value)
ValueChanged(currentValue, value) == JSONstringify(currentValue) # JSONstringify(value)

\* lines 155-168: the values of one update, in order
RECURSIVE ApplyValues(_, _, _, _, _)
ApplyValues(data, values, source, timestamp, updateCount) ==
    IF values = <<>> THEN [data |-> data, updateCount |-> updateCount]
    ELSE LET value == Head(values)
             changed ==
                 /\ value.path # ""
                 /\ value.value.t # "undefined"
                 /\ \/ value.path \notin DOMAIN data
                    \/ ValueChanged(data[value.path].value, value.value)
             field == [value |-> value.value, source |-> source, timestamp |-> timestamp]
         IN IF changed
            THEN ApplyValues((value.path :> field) @@ data, Tail(values),
                             source, timestamp, updateCount + 1)
            ELSE ApplyValues(data, Tail(values), source, timestamp, updateCount)

\* lines 152-169: the updates of a delta, in order
RECURSIVE ApplyUpdates(_, _, _, _)
ApplyUpdates(data, updates, currentTime, updateCount) ==
    IF updates = <<>> THEN [data |-> data, updateCount |-> updateCount]
    ELSE LET update == Head(updates)
             timestamp == IF update.timestamp # 0 THEN update.timestamp ELSE currentTime
             r == IF ~update.hasValues THEN [data |-> data, updateCount |-> updateCount]
                  ELSE ApplyValues(data, update.values, update.source, timestamp, updateCount)
         IN ApplyUpdates(r.data, Tail(updates), currentTime, r.updateCount)

\* line 144 with the distance between the two times in place of the difference
ThrottledEitherWay(vessel, currentTime) ==
    /\ vessel.lastUpdate # 0
    /\ vessel.lastUpdate # NaN
    /\ currentTime - vessel.lastUpdate < throttleMs
    /\ vessel.lastUpdate - currentTime < throttleMs

\* line 144: vessel.lastUpdate && (currentTime - vessel.lastUpdate) < 2000
Throttled(vessel, currentTime) ==
    /\ vessel.lastUpdate # 0
    /\ vessel.lastUpdate # NaN
    /\ currentTime - vessel.lastUpdate < throttleMs

NewVessel(vesselId, context) ==
    [id |-> vesselId, context |-> context, lastUpdate |-> 0, data |-> NoData,
     isCloudVessel |-> FALSE]

\* handleVesselUpdate taking a record it writes to as locally observed: the
\* cloud flag is cleared with the write of line 148
handleVesselUpdateAsLocal(reg, delta, currentTime) ==
    LET vesselId == ContextMatch(delta.context)
        ignored == [reg |-> reg, id |-> <<>>, accepted |-> FALSE, updateCount |-> 0]
    IN IF delta.context = <<>> \/ ~delta.hasUpdates THEN ignored
       ELSE IF vesselId = <<>> THEN ignored
       ELSE IF InvalidId(vesselId) THEN ignored
       ELSE LET reg1 == IF Has(reg, vesselId) THEN reg
                        ELSE MapSet(reg, vesselId, NewVessel(vesselId, delta.context))
                vessel == Get(reg1, vesselId)
                r == ApplyUpdates(vessel.data, delta.updates, currentTime, 0)
            IN IF Throttled(vessel, currentTime)
               THEN [reg |-> reg1, id |-> vesselId, accepted |-> FALSE, updateCount |-> 0]
               ELSE [reg |-> MapSet(reg1, vesselId,
                                    [vessel EXCEPT !.lastUpdate = currentTime,
                                                   !.data = r.data,
                                                   !.isCloudVessel = FALSE]),
                     id |-> vesselId, accepted |-> TRUE, updateCount |-> r.updateCount]

\* The registry after handleVesselUpdate(delta), with the vessel it touched,
\* whether the event passed the throttle, and updateCount.
handleVesselUpdate(reg, delta, currentTime) ==
    LET vesselId == ContextMatch(delta.context)
        ignored == [reg |-> reg, id |-> <<>>, accepted |-> FALSE, updateCount |-> 0]
    IN IF delta.context = <<>> \/ ~delta.hasUpdates THEN ignored
       ELSE IF vesselId = <<>> THEN ignored
       ELSE IF InvalidId(vesselId) THEN ignored
       ELSE LET reg1 == IF Has(reg, vesselId) THEN reg
                        ELSE MapSet(reg, vesselId, NewVessel(vesselId, delta.context))
                vessel == Get(reg1, vesselId)
                r == ApplyUpdates(vessel.data, delta.updates, currentTime, 0)
            IN IF Throttled(vessel, currentTime)
               THEN [reg |-> reg1, id |-> vesselId, accepted |-> FALSE, updateCount |-> 0]
               ELSE [reg |-> MapSet(reg1, vesselId,
                                    [vessel EXCEPT !.lastUpdate = currentTime,
                                                   !.data = r.data]),
                     id |-> vesselId, accepted |-> TRUE, updateCount |-> r.updateCount]

\* The subscription callback of start (lines 51-56) run on one delta.
Callback(delta, kind) ==
    /\ unsubscribes > 0
    /\ LET r == IF delta.context # <<>> /\ StartsWith(delta.context, VESSELS)
                THEN handleVesselUpdate(vesselData, delta, now)
                ELSE [reg |-> vesselData, id |-> <<>>, accepted |-> FALSE, updateCount |-> 0]
       IN /\ vesselData' = r.reg
          /\ submits' = IF r.accepted THEN Mutated(submits, r.id, Get(r.reg, r.id))
                        ELSE submits
          /\ hist' = IF r.accepted
                     THEN (r.id :> [time |-> now, delta |-> delta]) @@ hist
                     ELSE hist
          /\ lastOp' = [Op(kind) EXCEPT
                          !.id = r.id, !.delta = delta, !.accepted = r.accepted,
                          !.updateCount = r.updateCount,
                          !.repeat = (r.id \in DOMAIN hist /\ hist[r.id].delta = delta),
                          !.since = IF r.id \in DOMAIN hist THEN hist[r.id].time ELSE 0]

\* The bus delivers a delta of a local source.
Ingest(delta) ==
    /\ Callback(delta, "ingest")
    /\ UNCHANGED <<timer, nearbyTimer, unsubscribes, radiusNm, cloudVessels, now,
                   fetches, bus, starts>>

\* The bus delivers a delta that sendVesselData handed to app.handleMessage.
Deliver(delta) ==
    /\ delta \in bus
    /\ bus' = bus \ {delta}
    /\ Callback(delta, "deliver")
    /\ UNCHANGED <<timer, nearbyTimer, unsubscribes, radiusNm, cloudVessels, now, fetches,
                   starts>>

\* A delta handed to app.handleMessage while nothing is subscribed is never
\* delivered to the callback.
Drop(delta) ==
    /\ delta \in bus
    /\ unsubscribes = 0
    /\ bus' = bus \ {delta}
    /\ lastOp' = Op("drop")
    /\ UNCHANGED <<timer, nearbyTimer, unsubscribes, radiusNm, vesselData, cloudVessels,
                   now, submits, fetches, starts, hist>>

(***************************************************************************)
(* plugin.start (lines 26-64) and plugin.stop (lines 66-84)                *)
(***************************************************************************)
Min(a, b) == IF a < b THEN a ELSE b
Max(a, b) == IF a > b THEN a ELSE b

\* x || d for a number x
OrDefault(x, d) == IF x # 0 THEN x ELSE d

\* line 30 without Math.max
IntervalMinutesNoFloor(settings) == Min(OrDefault(settings.intervalMinutes, 5), 15)

IntervalMinutes(settings) == Min(Max(OrDefault(settings.intervalMinutes, 5), 1), 15)
RadiusNm(settings) == Min(Max(OrDefault(settings.radiusNauticalMiles, 100), 10), 100)

Start(settings) ==
    /\ timer = 0 /\ nearbyTimer = 0
    /\ starts < MaxStarts
    /\ radiusNm' = RadiusNm(settings)
    /\ unsubscribes' = unsubscribes + 1
    /\ timer' = IntervalMinutes(settings) * 60 * 1000
    /\ nearbyTimer' = IntervalMinutes(settings) * 60 * 1000
    /\ starts' = starts + 1
    /\ lastOp' = [Op("start") EXCEPT !.settings = settings]
    /\ UNCHANGED <<vesselData, cloudVessels, now, submits, fetches, bus, hist>>

\* plugin.stop without line 83
StopKeepsProvenance ==
    /\ timer # 0
    /\ timer' = 0
    /\ nearbyTimer' = 0
    /\ unsubscribes' = 0
    /\ vesselData' = <<>>
    /\ submits' = Dropped(submits, Keys(vesselData))
    /\ hist' = Forgotten(hist, Keys(vesselData))
    /\ lastOp' = Op("stop")
    /\ UNCHANGED <<radiusNm, cloudVessels, now, fetches, bus, starts>>

Stop ==
    /\ timer # 0
    /\ timer' = 0
    /\ nearbyTimer' = 0
    /\ unsubscribes' = 0
    /\ vesselData' = <<>>
    /\ cloudVessels' = {}
    /\ submits' = Dropped(submits, Keys(vesselData))
    /\ hist' = Forgotten(hist, Keys(vesselData))
    /\ lastOp' = Op("stop")
    /\ UNCHANGED <<radiusNm, now, fetches, bus, starts>>

(***************************************************************************)
(* The reporting cycle: startPeriodicSubmission (lines 174-187),           *)
(* submitVesselData (lines 250-313), submitBatch (lines 211-248)           *)
(***************************************************************************)
\* line 256-257 with the age taken in seconds
StaleSeconds(vessel, t) ==
    vessel.lastUpdate # NaN /\ (t - vessel.lastUpdate) \div 1000 > maxAge

\* line 256-257: age > maxAge (a comparison with NaN is false)
Stale(vessel, t) == vessel.lastUpdate # NaN /\ t - vessel.lastUpdate > maxAge

\* lines 257-268: the records the filter deletes from the registry
Evicted(vessel, t) == Stale(vessel, t) \/ InvalidId(vessel.id)

\* lines 255-281 without the test of lines 275-277 (cloud vessels)
ActiveCloudToo(vessel, t, cloud) ==
    /\ ~Evicted(vessel, t)
    /\ DOMAIN vessel.data # {}

\* lines 255-281: the records the filter keeps
Active(vessel, t, cloud) ==
    /\ ~Evicted(vessel, t)
    /\ DOMAIN vessel.data # {}
    /\ ~(vessel.id \in cloud \/ vessel.isCloudVessel)

IsNavigationPath(path) ==
    path \in {"navigation.position", "navigation.speedOverGround",
              "navigation.courseOverGroundTrue", "navigation.headingTrue",
              "navigation.rateOfTurn", "navigation.state"}
IsDesignPath(path) == path \in {"design.length", "design.beam", "design.draft"}

\* cleanVesselData (lines 189-209): the data of a vessel as the payload carries it
cleanVesselData(vessel) ==
    LET kept == {path \in DOMAIN vessel.data :
                    /\ vessel.data[path].value.t \notin {"null", "undefined"}
                    /\ IsNavigationPath(path) \/ IsDesignPath(path) \/ path = "name"}
    IN [id |-> vessel.id, context |-> vessel.context, lastUpdate |-> vessel.lastUpdate,
        data |-> [path \in kept |-> [value |-> vessel.data[path].value,
                                     timestamp |-> vessel.data[path].timestamp]]]

\* Math.floor(activeVessels.length / batchSize)
TotalBatchesFloor(cycle) == Len(cycle.activeVessels) \div batchSize

\* Math.ceil(activeVessels.length / batchSize)
TotalBatches(cycle) == (Len(cycle.activeVessels) + batchSize - 1) \div batchSize

\* activeVessels.slice(i * batchSize, i * batchSize + batchSize), the records as they are now
Batch(cycle, i) ==
    LET start == i * batchSize
        end == Min(start + batchSize, Len(cycle.activeVessels))
    IN [k \in 1..(end - start) |-> cycle.activeVessels[start + k].rec]

BatchIds(batch) == [k \in DOMAIN batch |-> batch[k].id]

\* new Date(vessel.lastUpdate).toISOString() of cleanVesselData throws a
\* RangeError on an invalid date: submitBatch then fails before the request.
PayloadThrows(batch) == \E k \in DOMAIN batch : batch[k].lastUpdate = NaN

\* The loop of lines 292-312 from batch i on, up to the next await: batches
\* whose payload cannot be built fail at once (caught, line 304) and the loop
\* goes on; the first other batch is posted.  pc "done" when the loop ends.
RECURSIVE RunBatches(_, _)
RunBatches(cycle, i) ==
    IF i >= TotalBatches(cycle) THEN [cycle EXCEPT !.pc = "done"]
    ELSE LET c == [cycle EXCEPT !.i = i, !.sent = Append(@, BatchIds(Batch(cycle, i)))]
         IN IF PayloadThrows(Batch(cycle, i)) THEN RunBatches(c, i + 1)
            ELSE [c EXCEPT !.pc = "post", !.requests = @ + 1]

\* The longest time a cycle can have run when its present await ends: every
\* request ends within REQUEST_TIMEOUT, every delay lasts batchDelayMs.
MaxElapsed(cycle) == cycle.requests * REQUEST_TIMEOUT + cycle.delays * batchDelayMs

\* The cycle after its step, among the others: a finished cycle is gone.
Continue(subs, k, cycle) ==
    IF cycle.pc = "done"
    THEN [j \in 1..(Len(subs) - 1) |-> IF j < k THEN subs[j] ELSE subs[j + 1]]
    ELSE [subs EXCEPT ![k] = cycle]

Observe(cycle, via) ==
    IF cycle.pc = "post"
    THEN [Op("post") EXCEPT !.batch = Batch(cycle, cycle.i), !.n = cycle.i, !.via = via]
    ELSE [Op("cycleEnd") EXCEPT
            !.via = via, !.sent = cycle.sent, !.total = Len(cycle.activeVessels),
            !.batch = [k \in DOMAIN cycle.activeVessels |-> cycle.activeVessels[k].rec]]

\* The timer of startPeriodicSubmission fires: submitVesselData runs up to its
\* first await.  Ticks are an interval apart, so a tick finds the cycles of
\* earlier ticks still running only if the latest of them can have lasted one
\* interval, the one before it two intervals, and so on.
SubmitTick ==
    /\ timer # 0
    /\ \A k \in DOMAIN submits : MaxElapsed(submits[k]) > (Len(submits) - k + 1) * timer
    /\ LET gone == {vesselData[k].id : k \in {j \in DOMAIN vesselData :
                                                    Evicted(vesselData[j], now)}}
           active == SelectSeq(vesselData, LAMBDA v : Active(v, now, cloudVessels))
           cycle == RunBatches([activeVessels |-> [k \in DOMAIN active |->
                                                      [rec |-> active[k], live |-> TRUE]],
                                i |-> 0, pc |-> "filter", sent |-> <<>>,
                                requests |-> 0, delays |-> 0], 0)
       IN /\ vesselData' = SelectSeq(vesselData, LAMBDA v : ~Evicted(v, now))
          /\ cloudVessels' = cloudVessels \ gone
          /\ submits' = IF active = <<>> \/ cycle.pc = "done"
                        THEN Dropped(submits, gone)
                        ELSE Append(Dropped(submits, gone), cycle)
          /\ hist' = Forgotten(hist, gone)
          /\ lastOp' = [(IF active = <<>> THEN [Op("submitNone") EXCEPT !.via = "tick"]
                         ELSE Observe(cycle, "tick")) EXCEPT !.evicted = gone]
    /\ UNCHANGED <<timer, nearbyTimer, unsubscribes, radiusNm, now, fetches, bus, starts>>

\* The request of submitBatch returns: await axios(requestConfig) resolves
\* (ok) or rejects (a status outside 2xx, a network error, the timeout).
PostReturn(k, ok) ==
    /\ k \in DOMAIN submits
    /\ submits[k].pc = "post"
    /\ LET c == submits[k]
           cycle == IF ok
                    THEN IF c.i < TotalBatches(c) - 1
                         THEN [c EXCEPT !.pc = "delay", !.delays = @ + 1]
                         ELSE [c EXCEPT !.pc = "done"]
                    ELSE RunBatches(c, c.i + 1)
       IN /\ submits' = Continue(submits, k, cycle)
          /\ lastOp' = IF cycle.pc = "delay" THEN Op("postOk")
                       ELSE Observe(cycle, IF ok THEN "ok" ELSE "fail")
    /\ UNCHANGED <<timer, nearbyTimer, unsubscribes, radiusNm, vesselData, cloudVessels,
                   now, fetches, bus, starts, hist>>

\* The delay between two batches (line 302) ends.
DelayDone(k) ==
    /\ k \in DOMAIN submits
    /\ submits[k].pc = "delay"
    /\ LET cycle == RunBatches(submits[k], submits[k].i + 1)
       IN /\ submits' = Continue(submits, k, cycle)
          /\ lastOp' = Observe(cycle, "delay")
    /\ UNCHANGED <<timer, nearbyTimer, unsubscribes, radiusNm, vesselData, cloudVessels,
                   now, fetches, bus, starts, hist>>

(***************************************************************************)
(* The cloud-sync cycle: startPeriodicNearbyFetch (lines 315-329),         *)
(* fetchNearbyVessels (331-419), getSelfPosition (421-434),                *)
(* processCloudVessels (436-643), sendVesselData (645-704)                 *)
(***************************************************************************)
\* getSelfPosition: position && position.value && latitude && longitude
getSelfPosition(env) ==
    IF env.positionThrows THEN Undefined
    ELSE IF env.position.t = "{latitude,longitude}"
            /\ env.position.a # 0 /\ env.position.b # 0
         THEN env.position
         ELSE Undefined

\* selfUuid.split('mmsi:')[1]
AfterMmsi(s) ==
    LET i == CHOOSE i \in 1..Len(s) : s[i] = "mmsi:" /\ \A j \in 1..(i - 1) : s[j] # "mmsi:"
        rest == SubSeq(s, i + 1, Len(s))
        stop == IF Includes(rest, "mmsi:")
                THEN (CHOOSE j \in 1..Len(rest) :
                          rest[j] = "mmsi:" /\ \A h \in 1..(j - 1) : rest[h] # "mmsi:") - 1
                ELSE Len(rest)
    IN SubSeq(rest, 1, stop)

\* lines 339-351 (and 212-224): the MMSI of the own vessel, <<>> when none
SelfMmsi(env) ==
    IF env.mmsiThrows
    THEN IF env.selfId # <<>> /\ Includes(env.selfId, "mmsi:") THEN AfterMmsi(env.selfId)
         ELSE <<>>
    ELSE env.mmsi

\* lines 333-355: the cycle issues its request
Requests(env) ==
    /\ getSelfPosition(env) # Undefined
    /\ ~(SelfMmsi(env) = <<>> /\ env.selfId = <<>>)

\* The test of line 445 on cloudVessel.mmsi
MmsiSkipped(mmsi) ==
    \/ mmsi.t \in {"null", "undefined"}
    \/ mmsi.s = <<>>
    \/ mmsi.t = "number" /\ mmsi.s = <<"0">>
    \/ mmsi.t = "string" /\ mmsi.s \in {<<"undefined">>, <<"null">>}

\* `urn:mrn:imo:mmsi:${mmsi}`
VesselIdOf(mmsi) == <<URN>> \o mmsi.s

\* x?.timestamp
TimestampOf(sub) == IF sub.present THEN sub.timestamp ELSE 0

\* a || b for timestamp strings (0 is absent or empty)
Or(a, b) == IF a # 0 THEN a ELSE b

\* a comparison of two times, false when either is NaN
Lt(a, b) == a # NaN /\ b # NaN /\ a < b
Le(a, b) == a # NaN /\ b # NaN /\ a <= b
Minus(a, b) == IF a = NaN \/ b = NaN THEN NaN ELSE a - b

\* lines 466-491 with < in place of <= at line 488
SkippedAsStrictlyOlder(existingVessel, cloudVessel, t) ==
    LET cloudTimeStr == Or(TimestampOf(cloudVessel.last_position),
                           TimestampOf(cloudVessel.latest_navigation))
        cloudTimestamp == IF cloudTimeStr # 0 THEN cloudTimeStr ELSE t
        existingAge == Minus(t, existingVessel.lastUpdate)
    IN /\ ~Lt(existingAge, twoMinutes)
       /\ Lt(cloudTimestamp, existingVessel.lastUpdate)

\* lines 466-491: an incoming record is skipped against an existing cloud record
SkippedAsOlder(existingVessel, cloudVessel, t) ==
    LET cloudTimeStr == Or(TimestampOf(cloudVessel.last_position),
                           TimestampOf(cloudVessel.latest_navigation))
        cloudTimestamp == IF cloudTimeStr # 0 THEN cloudTimeStr ELSE t
        existingAge == Minus(t, existingVessel.lastUpdate)
    IN /\ ~Lt(existingAge, twoMinutes)
       /\ Le(cloudTimestamp, existingVessel.lastUpdate)

\* degrees to radians and knots to m/s, in millionths
Radians(deg) == (deg * 3141593) \div 180
MetresPerSecond(kn) == kn * 514444

CloudField(value, timestamp) ==
    [value |-> value, timestamp |-> timestamp, source |-> CLOUD_SOURCE]

Present(v) == v.t \notin {"null", "undefined"}

\* lines 502-624: the record built from a cloud vessel
Converted(cloudVessel, t) ==
    LET pos == cloudVessel.last_position
        nav == cloudVessel.latest_navigation
        actualTimestamp == Or(Or(TimestampOf(pos), TimestampOf(nav)), t)
        navTimestamp == Or(nav.timestamp, t)
        static ==
            [path \in {q \in {"name"} : Truthy(cloudVessel.name)} |->
                CloudField(cloudVessel.name, t)]
            @@ [path \in {q \in {"communication.callsignVhf"} : Truthy(cloudVessel.call_sign)} |->
                CloudField(cloudVessel.call_sign, t)]
            @@ [path \in {q \in {"registrations.imo"} : Truthy(cloudVessel.imo_number)} |->
                CloudField(cloudVessel.imo_number, t)]
            @@ [path \in {q \in {"design.length"} : Truthy(cloudVessel.design_length)} |->
                CloudField(Overall(cloudVessel.design_length.a), t)]
            @@ [path \in {q \in {"design.beam"} : Truthy(cloudVessel.design_beam)} |->
                CloudField(cloudVessel.design_beam, t)]
            @@ [path \in {q \in {"design.draft"} : Truthy(cloudVessel.design_draft)} |->
                CloudField(Maximum(cloudVessel.design_draft.a), t)]
        position ==
            [path \in {q \in {"navigation.position"} : pos.present} |->
                CloudField(Position(pos.latitude.a, pos.longitude.a), Or(pos.timestamp, t))]
        navigation ==
            [path \in {q \in {"navigation.courseOverGroundTrue"} :
                           nav.present /\ Present(nav.course_over_ground)} |->
                CloudField(Num(Radians(nav.course_over_ground.a)), navTimestamp)]
            @@ [path \in {q \in {"navigation.speedOverGround"} :
                           nav.present /\ Present(nav.speed_over_ground)} |->
                CloudField(Num(MetresPerSecond(nav.speed_over_ground.a)), navTimestamp)]
            @@ [path \in {q \in {"navigation.headingTrue"} :
                           nav.present /\ Present(nav.heading)} |->
                CloudField(Num(Radians(nav.heading.a)), navTimestamp)]
            @@ [path \in {q \in {"navigation.rateOfTurn"} :
                           nav.present /\ Present(nav.rate_of_turn)} |->
                CloudField(Num(Radians(nav.rate_of_turn.a)), navTimestamp)]
            @@ [path \in {q \in {"navigation.state"} :
                           nav.present /\ Present(nav.navigation_status)} |->
                CloudField(nav.navigation_status, navTimestamp)]
    IN [id |-> VesselIdOf(cloudVessel.mmsi),
        context |-> <<VESSELS>> \o VesselIdOf(cloudVessel.mmsi),
        lastUpdate |-> actualTimestamp,
        data |-> static @@ position @@ navigation,
        isCloudVessel |-> TRUE]

\* line 660-667
safeSignalKPaths ==
    <<"navigation.position", "navigation.speedOverGround",
      "navigation.courseOverGroundTrue", "navigation.headingTrue",
      "navigation.rateOfTurn", "mmsi">>

\* the keys of a record built by Converted, in the order they were inserted
InsertionOrder ==
    <<"name", "communication.callsignVhf", "registrations.imo", "design.length",
      "design.beam", "design.draft", "navigation.position",
      "navigation.courseOverGroundTrue", "navigation.speedOverGround",
      "navigation.headingTrue", "navigation.rateOfTurn", "navigation.state", "mmsi">>

\* sendVesselData without the test of line 671: every field of the record
sendVesselDataEveryPath(vessel, t) ==
    LET paths == SelectSeq(InsertionOrder, LAMBDA path :
                     /\ path \in DOMAIN vessel.data
                     /\ Present(vessel.data[path].value))
    IN [context |-> vessel.context, hasUpdates |-> TRUE,
        updates |-> << [source |-> CLOUD_LABEL, timestamp |-> t, hasValues |-> TRUE,
                        values |-> [k \in DOMAIN paths |->
                                       [path |-> paths[k],
                                        value |-> vessel.data[paths[k]].value]]] >>]

\* sendVesselData (lines 645-694): the delta handed to app.handleMessage
sendVesselData(vessel, t) ==
    LET paths == SelectSeq(InsertionOrder, LAMBDA path :
                     /\ path \in DOMAIN vessel.data
                     /\ \E k \in DOMAIN safeSignalKPaths : safeSignalKPaths[k] = path
                     /\ Present(vessel.data[path].value))
    IN [context |-> vessel.context, hasUpdates |-> TRUE,
        updates |-> << [source |-> CLOUD_LABEL, timestamp |-> t, hasValues |-> TRUE,
                        values |-> [k \in DOMAIN paths |->
                                       [path |-> paths[k],
                                        value |-> vessel.data[paths[k]].value]]] >>]

\* line 458 taken as true of every existing record
IsExistingCloudDataAlways(existingVessel, cloud) == TRUE

\* line 458
IsExistingCloudData(existingVessel, cloud) ==
    existingVessel.isCloudVessel \/ existingVessel.id \in cloud

\* The loop of processCloudVessels (lines 443-637) over list, up to its next
\* await of the pause timer or to its end.  st holds the registry, the
\* provenance set, the deltas handed to the bus, the counters, the ids whose
\* record object was replaced and the ids written; throws is the set of ids
\* for which app.handleMessage throws (caught in sendVesselData, line 697).
RECURSIVE ProcessCloud(_, _, _, _)
ProcessCloud(st, list, t, throws) ==
    IF list = <<>> THEN [st EXCEPT !.rest = <<>>, !.paused = FALSE]
    ELSE
    LET cloudVessel == Head(list)
        vesselId == VesselIdOf(cloudVessel.mmsi)
        has == Has(st.reg, vesselId)
        existingVessel == Get(st.reg, vesselId)
        isExistingCloudData == IsExistingCloudData(existingVessel, st.cloud)
    IN IF MmsiSkipped(cloudVessel.mmsi)
       THEN ProcessCloud([st EXCEPT !.counts.skipped = @ + 1], Tail(list), t, throws)
       ELSE IF has /\ ~isExistingCloudData
       THEN ProcessCloud([st EXCEPT !.counts.localDataPreferred = @ + 1],
                         Tail(list), t, throws)
       ELSE IF has /\ SkippedAsOlder(existingVessel, cloudVessel, t)
       THEN ProcessCloud([st EXCEPT !.counts.skipped = @ + 1], Tail(list), t, throws)
       ELSE
       LET vesselDataObj == Converted(cloudVessel, t)
           processed == st.counts.processed + (IF has THEN 1 ELSE 2)
           st1 == [st EXCEPT
                     !.reg = MapSet(@, vesselId, vesselDataObj),
                     !.cloud = @ \cup {vesselId},
                     !.counts.updated = IF has THEN @ + 1 ELSE @,
                     !.counts.processed = processed,
                     !.replaced = IF has THEN @ \cup {vesselId} ELSE @,
                     !.written = Append(@, vesselId),
                     !.sent = IF vesselId \in throws THEN @
                              ELSE @ \cup {sendVesselData(vesselDataObj, t)}]
       IN IF processed % pauseEvery = 0
          THEN [st1 EXCEPT !.rest = Tail(list), !.paused = TRUE]
          ELSE ProcessCloud(st1, Tail(list), t, throws)

\* The summary loop of lines 389-404 throws a TypeError on a vessel whose
\* position has no numeric latitude and longitude, or whose navigation record
\* has a speed or course that is neither null nor a number.
SummaryThrows(vessels) ==
    \E k \in DOMAIN vessels :
        LET v == vessels[k]
        IN \/ v.last_position.present
              /\ (v.last_position.latitude.t # "number"
                  \/ v.last_position.longitude.t # "number")
           \/ v.latest_navigation.present
              /\ v.latest_navigation.speed_over_ground.t \notin {"null", "number"}
           \/ v.latest_navigation.present
              /\ v.latest_navigation.course_over_ground.t \notin {"null", "number"}

\* The longest time a fetch can have run when its present await ends.
FetchMaxElapsed(fetch) ==
    REQUEST_TIMEOUT + (fetch.counts.processed \div pauseEvery) * pauseMs

\* The timer of startPeriodicNearbyFetch fires: fetchNearbyVessels runs up to
\* its request, or returns before it.
NearbyTick(env) ==
    /\ nearbyTimer # 0
    /\ \A k \in DOMAIN fetches :
           FetchMaxElapsed(fetches[k]) > (Len(fetches) - k + 1) * nearbyTimer
    /\ fetches' = IF Requests(env)
                  THEN Append(fetches, [pc |-> "get", rest |-> <<>>, counts |-> NoCounts,
                                        throws |-> {}])
                  ELSE fetches
    /\ lastOp' = [Op(IF Requests(env) THEN "get" ELSE "getNone") EXCEPT !.env = env]
    /\ UNCHANGED <<timer, nearbyTimer, unsubscribes, radiusNm, vesselData, cloudVessels,
                   now, submits, bus, starts, hist>>

\* One run of processCloudVessels between two awaits, as a step of fetch k.
Merge(k, list, counts, throws, kind) ==
    LET st == ProcessCloud([reg |-> vesselData, cloud |-> cloudVessels, sent |-> {},
                            counts |-> counts, replaced |-> {}, written |-> <<>>,
                            rest |-> <<>>, paused |-> FALSE], list, now, throws)
    IN /\ vesselData' = st.reg
       /\ cloudVessels' = st.cloud
       /\ bus' = bus \cup st.sent
       /\ submits' = Dropped(submits, st.replaced)
       /\ hist' = Forgotten(hist, st.replaced)
       /\ fetches' = IF st.paused
                     THEN [fetches EXCEPT ![k] = [pc |-> "pause", rest |-> st.rest,
                                                  counts |-> st.counts, throws |-> throws]]
                     ELSE [j \in 1..(Len(fetches) - 1) |->
                              IF j < k THEN fetches[j] ELSE fetches[j + 1]]
       /\ lastOp' = [Op(kind) EXCEPT !.counts = st.counts, !.written = st.written,
                                     !.n = Len(list) - Len(st.rest), !.list = list,
                                     !.paused = st.paused, !.throws = throws]

\* The request of fetchNearbyVessels resolves with a body.
GetReturn(k, response, throws) ==
    /\ k \in DOMAIN fetches
    /\ fetches[k].pc = "get"
    /\ IF response.isArray /\ ~SummaryThrows(response.vessels)
       THEN Merge(k, response.vessels, NoCounts, throws, "merge")
       ELSE /\ fetches' = [j \in 1..(Len(fetches) - 1) |->
                              IF j < k THEN fetches[j] ELSE fetches[j + 1]]
            /\ lastOp' = Op(IF response.isArray THEN "getThrew" ELSE "getNoVessels")
            /\ UNCHANGED <<vesselData, cloudVessels, bus, submits, hist>>
    /\ UNCHANGED <<timer, nearbyTimer, unsubscribes, radiusNm, now, starts>>

\* The request of fetchNearbyVessels rejects and the rethrown error (line 417)
\* is caught by nothing: the unhandled rejection ends the process and with it
\* both timers.
GetFailFatal(k) ==
    /\ k \in DOMAIN fetches
    /\ fetches[k].pc = "get"
    /\ fetches' = <<>>
    /\ submits' = <<>>
    /\ timer' = 0
    /\ nearbyTimer' = 0
    /\ lastOp' = Op("getFailed")
    /\ UNCHANGED <<unsubscribes, radiusNm, vesselData, cloudVessels, now, bus, starts, hist>>

\* The request of fetchNearbyVessels rejects: logged, rethrown (line 417) and
\* caught by the timer callback (line 322).
GetFail(k) ==
    /\ k \in DOMAIN fetches
    /\ fetches[k].pc = "get"
    /\ fetches' = [j \in 1..(Len(fetches) - 1) |->
                      IF j < k THEN fetches[j] ELSE fetches[j + 1]]
    /\ lastOp' = Op("getFailed")
    /\ UNCHANGED <<timer, nearbyTimer, unsubscribes, radiusNm, vesselData, cloudVessels,
                   now, submits, bus, starts, hist>>

\* The pause of line 635 ends.
MergeResume(k) ==
    /\ k \in DOMAIN fetches
    /\ fetches[k].pc = "pause"
    /\ Merge(k, fetches[k].rest, fetches[k].counts, fetches[k].throws, "resume")
    /\ UNCHANGED <<timer, nearbyTimer, unsubscribes, radiusNm, now, starts>>

\* The clock moves to the next of the given readings.
Tick(instants) ==
    /\ \E t \in instants : t > now
    /\ now' = CHOOSE t \in instants : t > now /\ \A u \in instants : u > now => t <= u
    /\ lastOp' = Op("tick")
    /\ UNCHANGED <<timer, nearbyTimer, unsubscribes, radiusNm, vesselData, cloudVessels,
                   submits, fetches, bus, starts, hist>>

(***************************************************************************)
(* The inputs the environment supplies                                     *)
(***************************************************************************)
Mmsi(s) == [t |-> "string", s |-> s]
Absent == [present |-> FALSE, latitude |-> Undefined, longitude |-> Undefined,
           timestamp |-> 0]
NoNavigation ==
    [present |-> FALSE, course_over_ground |-> Undefined, speed_over_ground |-> Undefined,
     heading |-> Undefined, rate_of_turn |-> Undefined, navigation_status |-> Undefined,
     timestamp |-> 0]

\* a vessel of the nearby response with an MMSI only
CloudVessel(mmsi) ==
    [mmsi |-> mmsi, name |-> Undefined, call_sign |-> Undefined, imo_number |-> Undefined,
     design_length |-> Undefined, design_beam |-> Undefined, design_draft |-> Undefined,
     last_position |-> Absent, latest_navigation |-> NoNavigation]

LastPosition(lat, lon, timestamp) ==
    [present |-> TRUE, latitude |-> lat, longitude |-> lon, timestamp |-> timestamp]

\* a delta of a local source: one update with the given values
LocalDelta(context, timestamp, values) ==
    [context |-> context, hasUpdates |-> TRUE,
     updates |-> << [source |-> "{label:ais}", timestamp |-> timestamp,
                     hasValues |-> TRUE, values |-> values] >>]

PathValue(path, value) == [path |-> path, value |-> value]

ContextOf(id) == <<VESSELS, URN, id>>

\* a timestamp more than 24 hours before the plugin was constructed
LongAgo == T0 - maxAge - 1

SelfEnv(position, selfId, mmsi) ==
    [position |-> position, positionThrows |-> FALSE, selfId |-> selfId,
     mmsi |-> mmsi, mmsiThrows |-> FALSE]

\* all sequences over S of length 1..n
RECURSIVE SeqsUpTo(_, _)
SeqsUpTo(S, n) ==
    IF n = 0 THEN {<<>>}
    ELSE LET shorter == SeqsUpTo(S, n - 1)
         IN shorter \cup {Append(q, x) : q \in shorter, x \in S}

Init ==
    /\ timer = 0
    /\ nearbyTimer = 0
    /\ unsubscribes = 0
    /\ radiusNm = 100
    /\ vesselData = <<>>
    /\ cloudVessels = {}
    /\ now = T0
    /\ submits = <<>>
    /\ fetches = <<>>
    /\ bus = {}
    /\ starts = 0
    /\ hist = [id \in {} |-> NoHist]
    /\ lastOp = Op("init")

(***************************************************************************)
(* Spec: the reporting engine with several batches, beside ingest, the     *)
(* cloud-sync cycle and stop.  Three vessels make two batches.             *)
(***************************************************************************)
Settings == {[intervalMinutes |-> 1, radiusNauticalMiles |-> 0]}

SelfEnvs == {SelfEnv(Position(5, 5), <<"urn:mrn:imo:", "mmsi:", "9">>, <<"9">>)}

PositionDelta(id, n) ==
    LocalDelta(ContextOf(id), 0, <<PathValue("navigation.position", Position(n, n))>>)

CloudPosition(id, n, timestamp) ==
    [CloudVessel(Mmsi(<<id>>)) EXCEPT !.last_position = LastPosition(Num(n), Num(n), timestamp)]

Response(vessels) == [isArray |-> TRUE, vessels |-> vessels]

BatchDeltas == {PositionDelta(id, 1) : id \in {"1", "2", "3"}}

BatchResponses == {Response(<<CloudPosition("3", 2, 0)>>)}

Next ==
    \/ \E settings \in Settings : Start(settings)
    \/ Stop
    \/ \E delta \in BatchDeltas : Ingest(delta)
    \/ \E delta \in bus : Deliver(delta)
    \/ \E delta \in bus : Drop(delta)
    \/ SubmitTick
    \/ \E k \in DOMAIN submits, ok \in BOOLEAN : PostReturn(k, ok)
    \/ \E k \in DOMAIN submits : DelayDone(k)
    \/ \E env \in SelfEnvs : NearbyTick(env)
    \/ \E k \in DOMAIN fetches, response \in BatchResponses : GetReturn(k, response, {})
    \/ \E k \in DOMAIN fetches : GetFail(k)

Spec == Init /\ [][Next]_vars

(***************************************************************************)
(* SpecEvict: staleness.  The clock is read now or more than 24 hours      *)
(* later, and the cloud supplies timestamps of now or of long ago.         *)
(***************************************************************************)
EvictInstants == InstantsOf({0, NumInstants})

EvictDeltas == {PositionDelta(id, 1) : id \in {"1", "2"}}

EvictResponses ==
    {Response(q) : q \in SeqsUpTo({CloudPosition("1", 2, timestamp) :
                                       timestamp \in {0, LongAgo}}, MaxResp) \ {<<>>}}

NextEvict ==
    \/ \E settings \in Settings : Start(settings)
    \/ Tick(EvictInstants)
    \/ \E delta \in EvictDeltas : Ingest(delta)
    \/ \E delta \in bus : Deliver(delta)
    \/ SubmitTick
    \/ \E k \in DOMAIN submits, ok \in BOOLEAN : PostReturn(k, ok)
    \/ \E env \in SelfEnvs : NearbyTick(env)
    \/ \E k \in DOMAIN fetches, response \in EvictResponses : GetReturn(k, response, {})
    \/ \E k \in DOMAIN fetches : GetFail(k)

SpecEvict == Init /\ [][NextEvict]_vars

(***************************************************************************)
(* SpecIngest: one vessel under ingest events and cloud merges a few       *)
(* hundred milliseconds and a few seconds apart.                           *)
(***************************************************************************)
IngestClock == InstantsOf(0..IngestInstants)

IngestDeltas ==
    {PositionDelta("1", 1),
     LocalDelta(ContextOf("1"), T0 + Offset(1),
                <<PathValue("navigation.position", Position(2, 2))>>),
     LocalDelta(ContextOf("1"), 0,
                <<PathValue("navigation.position", Position(1, 1)),
                  PathValue("navigation.position", Position(2, 2))>>)}

\* the vessel alone, timed now, long ago or two minutes ahead, and two new vessels together
\* (which reaches the pause)
IngestResponses ==
    {Response(<<CloudPosition("1", 2, timestamp)>>) : timestamp \in {0, LongAgo, T0 + Offset(3)}}
    \cup {Response(<<CloudPosition("1", 2, 0), CloudVessel(Mmsi(<<"2">>))>>)}

NextIngest ==
    \/ \E settings \in Settings : Start(settings)
    \/ Tick(IngestClock)
    \/ \E delta \in IngestDeltas : Ingest(delta)
    \/ \E delta \in bus : Deliver(delta)
    \/ \E env \in SelfEnvs : NearbyTick(env)
    \/ \E k \in DOMAIN fetches, response \in IngestResponses :
           Cardinality(bus) <= MaxBus /\ GetReturn(k, response, {})
    \/ \E k \in DOMAIN fetches : GetFail(k)
    \/ \E k \in DOMAIN fetches : MergeResume(k)

SpecIngest == Init /\ [][NextIngest]_vars

(***************************************************************************)
(* SpecIds: the contexts and MMSI values that are not vessel identifiers,  *)
(* under ingest, cloud merge and the filter of the reporting cycle.        *)
(***************************************************************************)
InvalidContexts ==
    {<<VESSELS, "undefined">>, <<VESSELS, "null">>, <<VESSELS>>,
     <<VESSELS, URN, "undefined">>, <<"aircraft.", URN, "1">>, <<>>}

IdDeltas ==
    {PositionDelta("1", 1)}
    \cup {LocalDelta(context, 0, <<PathValue("navigation.position", Position(1, 1))>>) :
             context \in InvalidContexts}
    \cup {[context |-> ContextOf("1"), hasUpdates |-> FALSE, updates |-> <<>>]}
    \cup {LocalDelta(ContextOf("3"), 0, <<>>)}

MmsiValues ==
    {[t |-> "undefined", s |-> <<"undefined">>], [t |-> "null", s |-> <<"null">>],
     [t |-> "number", s |-> <<"0">>], Mmsi(<<>>), Mmsi(<<"undefined">>), Mmsi(<<"null">>),
     Mmsi(<<"undefined", "7">>), Mmsi(<<"2">>)}

IdResponses ==
    {Response(q) : q \in SeqsUpTo({CloudVessel(mmsi) : mmsi \in MmsiValues}, MaxResp) \ {<<>>}}

NextIds ==
    \/ \E settings \in Settings : Start(settings)
    \/ \E delta \in IdDeltas : Ingest(delta)
    \/ \E delta \in bus : Deliver(delta)
    \/ SubmitTick
    \/ \E k \in DOMAIN submits, ok \in BOOLEAN : PostReturn(k, ok)
    \/ \E env \in SelfEnvs : NearbyTick(env)
    \/ \E k \in DOMAIN fetches, response \in IdResponses : GetReturn(k, response, {})
    \/ \E k \in DOMAIN fetches : GetFail(k)

SpecIds == Init /\ [][NextIds]_vars

(***************************************************************************)
(* SpecLong: a reporting cycle of three batches that is still running when *)
(* the next one starts.  Five vessels are first heard, in order, when the  *)
(* plugin starts; the clock is read 30 seconds before they are 24 hours    *)
(* old and 30 seconds after.                                               *)
(***************************************************************************)
LongClock == {T0, T0 + maxAge - REQUEST_TIMEOUT, T0 + maxAge + REQUEST_TIMEOUT}

LongIds == <<"1", "2", "3", "4", "5">>

LongResponses == {Response(<<CloudPosition("5", 2, 0)>>)}

NextLong ==
    \/ \E settings \in Settings : Start(settings)
    \/ Tick(LongClock)
    \/ \E n \in DOMAIN LongIds :
           Len(vesselData) = n - 1 /\ now = T0 /\ Ingest(PositionDelta(LongIds[n], 1))
    \/ SubmitTick
    \/ \E k \in DOMAIN submits, ok \in BOOLEAN : PostReturn(k, ok)
    \/ \E k \in DOMAIN submits : DelayDone(k)
    \/ \E env \in SelfEnvs : NearbyTick(env)
    \/ \E k \in DOMAIN fetches, response \in LongResponses : GetReturn(k, response, {})
    \/ \E k \in DOMAIN fetches : GetFail(k)

SpecLong == Init /\ [][NextLong]_vars

(***************************************************************************)
(* SpecConfig: the plugin started with settings that are absent (0), zero, *)
(* negative, in range, on the limits and beyond them.                      *)
(***************************************************************************)
ConfigSettings ==
    {[intervalMinutes |-> i, radiusNauticalMiles |-> r] :
        i \in {0, 0 - 3, 1, 7, 15, 16, 100}, r \in {0, 0 - 5, 5, 10, 50, 100, 101}}

NextConfig ==
    \/ \E settings \in ConfigSettings : Start(settings)
    \/ Stop
    \/ \E delta \in EvictDeltas : Ingest(delta)
    \/ SubmitTick
    \/ \E k \in DOMAIN submits, ok \in BOOLEAN : PostReturn(k, ok)
    \/ \E env \in SelfEnvs : NearbyTick(env)
    \/ \E k \in DOMAIN fetches : GetFail(k)

SpecConfig == Init /\ [][NextConfig]_vars

(***************************************************************************)
(* SpecCloud: one vessel known from the cloud only, and responses with its *)
(* position and navigation timed before, at and after the existing record, *)
(* or not timed, received at once and more than two minutes later.         *)
(***************************************************************************)
CloudClock == InstantsOf({0, 1, 3})

Earlier == T0 - 5 * throttleMs
Later == T0 + throttleMs

Navigation(knots, timestamp) ==
    [NoNavigation EXCEPT !.present = TRUE, !.speed_over_ground = Num(knots),
                         !.course_over_ground = Null, !.heading = Null,
                         !.rate_of_turn = Null, !.navigation_status = Null,
                         !.timestamp = timestamp]

CloudTimed ==
    {CloudPosition("1", 2, timestamp) : timestamp \in {0, Earlier, T0, Later}}
    \cup {[CloudVessel(Mmsi(<<"1">>)) EXCEPT !.latest_navigation = Navigation(4, timestamp)] :
             timestamp \in {0, Earlier, Later}}
    \cup {[CloudPosition("1", 2, Earlier) EXCEPT !.latest_navigation = Navigation(4, Later)]}

CloudResponses == {Response(<<v>>) : v \in CloudTimed}

NextCloud ==
    \/ \E settings \in Settings : Start(settings)
    \/ Tick(CloudClock)
    \/ \E delta \in bus : Deliver(delta)
    \/ \E env \in SelfEnvs : NearbyTick(env)
    \/ \E k \in DOMAIN fetches, response \in CloudResponses :
           Cardinality(bus) <= MaxBus /\ GetReturn(k, response, {})
    \/ \E k \in DOMAIN fetches : GetFail(k)

SpecCloud == Init /\ [][NextCloud]_vars

(***************************************************************************)
(* SpecInject: responses whose vessels carry static fields, a position and *)
(* a full navigation record, merged while app.handleMessage throws for any *)
(* subset of the vessels.                                                  *)
(***************************************************************************)
InjectClock == InstantsOf({0, 3})

Named(vessel) ==
    [vessel EXCEPT !.name = Str(1), !.call_sign = Str(2), !.imo_number = Str(3),
                   !.design_length = Num(7), !.design_beam = Num(3),
                   !.design_draft = Num(1)]

Underway ==
    [Navigation(4, 0) EXCEPT !.course_over_ground = Num(90), !.heading = Num(180),
                             !.rate_of_turn = Num(0), !.navigation_status = Str(5)]

InjectVessels ==
    << Named(CloudPosition("1", 2, 0)),
       Named([CloudVessel(Mmsi(<<"2">>)) EXCEPT !.latest_navigation = Underway]),
       CloudPosition("3", 2, 0) >>

InjectResponses ==
    {Response(InjectVessels), Response(SubSeq(InjectVessels, 2, 2)),
     Response(SubSeq(InjectVessels, 2, 3))}

InjectThrows == SUBSET {VesselIdOf(InjectVessels[k].mmsi) : k \in DOMAIN InjectVessels}

NextInject ==
    \/ \E settings \in Settings : Start(settings)
    \/ Tick(InjectClock)
    \/ \E delta \in bus : Deliver(delta)
    \/ \E env \in SelfEnvs : NearbyTick(env)
    \/ \E k \in DOMAIN fetches, response \in InjectResponses, throws \in InjectThrows :
           Cardinality(bus) <= MaxBus /\ GetReturn(k, response, throws)
    \/ \E k \in DOMAIN fetches : Cardinality(bus) <= MaxBus /\ MergeResume(k)
    \/ \E k \in DOMAIN fetches : GetFail(k)

SpecInject == Init /\ [][NextInject]_vars

(***************************************************************************)
(* SpecSelf: cloud-sync cycles under every own position (coordinates 0     *)
(* among them, absent, unreadable) and every combination of self           *)
(* identifiers.                                                            *)
(***************************************************************************)
SelfPositions == {Position(5, 5), Position(0, 5), Position(5, 0), Undefined}

SelfIds == {<<>>, <<"uuid">>, <<"urn:mrn:imo:", "mmsi:", "9">>}

SelfVariety ==
    {[position |-> position, positionThrows |-> positionThrows, selfId |-> selfId,
      mmsi |-> mmsi, mmsiThrows |-> mmsiThrows] :
         position \in SelfPositions, positionThrows \in BOOLEAN, selfId \in SelfIds,
         mmsi \in {<<>>, <<"9">>}, mmsiThrows \in BOOLEAN}

NextSelf ==
    \/ \E settings \in Settings : Start(settings)
    \/ \E delta \in EvictDeltas : Ingest(delta)
    \/ \E env \in SelfVariety : NearbyTick(env)
    \/ \E k \in DOMAIN fetches, response \in BatchResponses : GetReturn(k, response, {})
    \/ \E k \in DOMAIN fetches : GetFail(k)

SpecSelf == Init /\ [][NextSelf]_vars

(***************************************************************************)
(* SpecProvenance: one vessel under ingest, cloud merges (with a pause in  *)
(* the longest response), eviction after more than 24 hours and stop().    *)
(***************************************************************************)
ProvenanceDeltas == {PositionDelta("1", 1)}

ProvenanceResponses == {Response(<<CloudPosition("1", 2, LongAgo)>>), Response(InjectVessels)}

NextProvenance ==
    \/ \E settings \in Settings : Start(settings)
    \/ Stop
    \/ Tick(EvictInstants)
    \/ \E delta \in ProvenanceDeltas : Ingest(delta)
    \/ SubmitTick
    \/ \E k \in DOMAIN submits : PostReturn(k, TRUE)
    \/ \E env \in SelfEnvs : NearbyTick(env)
    \/ \E k \in DOMAIN fetches, response \in ProvenanceResponses : GetReturn(k, response, {})
    \/ \E k \in DOMAIN fetches : MergeResume(k)
    \/ \E k \in DOMAIN fetches : GetFail(k)

SpecProvenance == Init /\ [][NextProvenance]_vars

(***************************************************************************)
(* SpecSticky: the vessels and the clock of SpecLong, with ingest events   *)
(* for vessel 5 while its record is the one a cloud merge created.         *)
(***************************************************************************)
NextSticky ==
    \/ \E settings \in Settings : Start(settings)
    \/ Tick(LongClock)
    \/ \E n \in DOMAIN LongIds :
           Len(vesselData) = n - 1 /\ now = T0 /\ Ingest(PositionDelta(LongIds[n], 1))
    \/ /\ Has(vesselData, <<URN, "5">>)
       /\ Get(vesselData, <<URN, "5">>).isCloudVessel
       /\ Ingest(PositionDelta("5", 1))
    \/ SubmitTick
    \/ \E k \in DOMAIN submits, ok \in BOOLEAN : PostReturn(k, ok)
    \/ \E k \in DOMAIN submits : DelayDone(k)
    \/ \E env \in SelfEnvs : NearbyTick(env)
    \/ \E k \in DOMAIN fetches, response \in LongResponses : GetReturn(k, response, {})
    \/ \E k \in DOMAIN fetches : GetFail(k)

SpecSticky == Init /\ [][NextSticky]_vars

(***************************************************************************)
(* SpecReplace: two vessels heard locally or known from the cloud, and     *)
(* responses that supply a position only, a navigation record only, or     *)
(* static fields with a position, for one of them or for both.             *)
(***************************************************************************)
ReplaceDeltas == {PositionDelta(id, 1) : id \in {"1", "2"}}

ReplaceClock == InstantsOf({0, 3})

ReplaceResponses ==
    {Response(<<CloudPosition("1", 2, 0)>>),
     Response(<<[CloudVessel(Mmsi(<<"1">>)) EXCEPT !.latest_navigation = Navigation(4, 0)]>>),
     Response(<<[CloudVessel(Mmsi(<<"1">>)) EXCEPT !.latest_navigation = Underway],
                Named(CloudPosition("2", 2, 0))>>)}

NextReplace ==
    \/ \E settings \in Settings : Start(settings)
    \/ Tick(ReplaceClock)
    \/ \E delta \in ReplaceDeltas : Ingest(delta)
    \/ \E env \in SelfEnvs : NearbyTick(env)
    \/ \E k \in DOMAIN fetches, response \in ReplaceResponses : GetReturn(k, response, {})
    \/ \E k \in DOMAIN fetches : MergeResume(k)
    \/ \E k \in DOMAIN fetches : GetFail(k)

SpecReplace == Init /\ [][NextReplace]_vars

(***************************************************************************)
(* The properties                                                          *)
(***************************************************************************)

\* C1: after any sequence of ingest events and cloud merges, no key of the
\* registry is the empty string, "undefined", "null" or a string that
\* contains "undefined".
C1_NoInvalidKey == \A id \in Keys(vesselData) : ~InvalidId(id)

\* C2 (local wins): a cloud merge leaves every record that is not cloud-tagged
\* (no isCloudVessel flag, not in the cloud-provenance set) exactly as it was,
\* whatever the timestamp of the incoming record, and does not add its id to
\* the cloud-provenance set.
C2_LocalWins ==
    [][lastOp'.kind \in {"merge", "resume"} =>
          \A k \in DOMAIN vesselData :
              LET r == vesselData[k]
              IN (~r.isCloudVessel /\ r.id \notin cloudVessels) =>
                     /\ Has(vesselData', r.id)
                     /\ Get(vesselData', r.id) = r
                     /\ r.id \notin cloudVessels']_vars

\* a merge has met a local record holding position 1 while the cloud sent
\* position 2 for the same vessel
C2_Witness ==
    /\ lastOp.kind = "merge"
    /\ lastOp.counts.localDataPreferred > 0
    /\ \E k \in DOMAIN vesselData :
           /\ ~vesselData[k].isCloudVessel
           /\ "navigation.position" \in DOMAIN vesselData[k].data
           /\ vesselData[k].data["navigation.position"].value = Position(1, 1)

\* C6 (per-vessel throttle): an ingest event for a vessel is discarded, with
\* no field written, if and only if less than 2 seconds have passed since the
\* last ingest event accepted for that vessel, whatever cloud merge of the
\* vessel happened in between.
C6_Throttle ==
    (lastOp.kind \in {"ingest", "deliver"} /\ lastOp.id # <<>>) =>
        /\ lastOp.accepted <=> ~(lastOp.since # 0 /\ now - lastOp.since < throttleMs)
        /\ ~lastOp.accepted => lastOp.updateCount = 0

\* no path occurs twice among the values of the delta
DistinctPaths(delta) ==
    /\ Len(delta.updates) = 1
    /\ \A i, j \in DOMAIN delta.updates[1].values :
           i # j => delta.updates[1].values[i].path # delta.updates[1].values[j].path

\* C7 (ingest is idempotent under value equality): when the event that was
\* last applied to a vessel's record is delivered again, the repetition writes
\* no field (every value, source and field timestamp stays as first written)
\* and counts no change.
C7_Idempotent ==
    [][(/\ lastOp'.kind \in {"ingest", "deliver"}
        /\ lastOp'.repeat
        /\ DistinctPaths(lastOp'.delta)) =>
          /\ lastOp'.updateCount = 0
          /\ Has(vesselData, lastOp'.id) /\ Has(vesselData', lastOp'.id)
          /\ Get(vesselData', lastOp'.id).data = Get(vesselData, lastOp'.id).data]_vars

\* a repetition has passed the throttle and written nothing
C7_Witness ==
    /\ lastOp.kind = "ingest"
    /\ lastOp.repeat
    /\ lastOp.accepted
    /\ DistinctPaths(lastOp.delta)
    /\ lastOp.updateCount = 0
    /\ Get(vesselData, lastOp.id).data["navigation.position"].timestamp < now

\* the vessel is cloud-tagged in the registry
CloudTagged(id) ==
    \/ id \in cloudVessels
    \/ Has(vesselData, id) /\ Get(vesselData, id).isCloudVessel

\* C3 as stated: at the moment any batch is submitted, the first of a cycle or
\* a later one, no vessel of the batch is cloud-tagged in the registry.
C3_NoCloudTaggedInBatch ==
    lastOp.kind = "post" => \A j \in DOMAIN lastOp.batch : ~CloudTagged(lastOp.batch[j].id)

\* C3 as the code has it: no record of any submitted batch carries the cloud
\* flag, and no vessel of the batches submitted in the run that took the
\* snapshot is cloud-tagged in the registry.  (A vessel of a later batch can
\* have become cloud-tagged in the registry while the cycle was suspended.)
C3_SnapshotHasNoCloudVessel ==
    lastOp.kind = "post" =>
        /\ \A j \in DOMAIN lastOp.batch : ~lastOp.batch[j].isCloudVessel
        /\ lastOp.via = "tick" =>
               \A j \in DOMAIN lastOp.batch : ~CloudTagged(lastOp.batch[j].id)

\* a cycle has taken its snapshot and posted its first batch while the
\* registry held a cloud-tagged record with data
C3_Witness ==
    /\ lastOp.kind = "post"
    /\ lastOp.via = "tick"
    /\ \E k \in DOMAIN vesselData :
           /\ vesselData[k].isCloudVessel
           /\ vesselData[k].id \in cloudVessels
           /\ DOMAIN vesselData[k].data # {}

\* C4 (loop prevention): no field of a submitted batch holds a value that came
\* from the cloud source, written by the cloud merge or by the re-injected
\* delta.
C4_NoCloudValueSubmitted ==
    lastOp.kind = "post" =>
        \A j \in DOMAIN lastOp.batch :
            \A path \in DOMAIN cleanVesselData(lastOp.batch[j]).data :
                lastOp.batch[j].data[path].source \notin {CLOUD_SOURCE, CLOUD_LABEL}

\* the record's lastUpdate is more than 24 hours before t
OlderThanADay(vessel, t) ==
    vessel.lastUpdate >= 0 /\ t - vessel.lastUpdate > 24 * 60 * 60 * 1000

\* the step completes a reporting cycle's filter, or a cloud-sync cycle
FilterRan(op) == op.kind \in {"submitNone", "post", "cycleEnd"} /\ op.via = "tick"
CloudSyncCompleted(op, fs) ==
    /\ op.kind \in {"merge", "resume"}
    /\ \A k \in DOMAIN fs : fs[k].pc # "pause"

RECURSIVE Flatten(_)
Flatten(batches) ==
    IF batches = <<>> THEN <<>> ELSE Head(batches) \o Flatten(Tail(batches))

\* the batches are full but the last, and together they are the start of ids
Partitions(batches, ids) ==
    /\ \A b \in DOMAIN batches :
           /\ Len(batches[b]) >= 1
           /\ Len(batches[b]) <= batchSize
           /\ b < Len(batches) => Len(batches[b]) = batchSize
    /\ Len(Flatten(batches)) <= Len(ids)
    /\ Flatten(batches) = SubSeq(ids, 1, Len(Flatten(batches)))
    /\ \A i, j \in DOMAIN ids : i # j => ids[i] # ids[j]

\* C8 (batch isolation): the batches a cycle has attempted are, in order, the
\* active set cut into batches of at most batchSize records, each vessel in
\* exactly one batch and no batch twice; when the cycle ends every batch has
\* been attempted, whichever of them failed.
C8_BatchIsolation ==
    /\ \A k \in DOMAIN submits :
           /\ Len(submits[k].sent) = submits[k].i + 1
           /\ Partitions(submits[k].sent,
                         [j \in DOMAIN submits[k].activeVessels |->
                             submits[k].activeVessels[j].rec.id])
    /\ lastOp.kind = "cycleEnd" =>
           /\ Partitions(lastOp.sent, BatchIds(lastOp.batch))
           /\ Flatten(lastOp.sent) = BatchIds(lastOp.batch)
           /\ Len(lastOp.sent) * batchSize >= lastOp.total
           /\ lastOp.total = Len(lastOp.batch)

\* the second batch of a cycle is posted right after the first has failed
C8_Witness ==
    /\ lastOp.kind = "post"
    /\ lastOp.via = "fail"
    /\ lastOp.n = 1
    /\ \E k \in DOMAIN submits : Len(submits[k].sent) = 2

\* C9: never two reporting POST requests outstanding at once, nor two
\* nearby-vessels GET requests.
C9_NoConcurrentRequests ==
    /\ Cardinality({k \in DOMAIN submits : submits[k].pc = "post"}) <= 1
    /\ Cardinality({k \in DOMAIN fetches : fetches[k].pc = "get"}) <= 1

\* C10 (shutdown): once stop has run, both timers and the subscription are
\* released, the registry and the cloud-provenance set are empty and stay
\* empty, and the response of a request that was in flight writes nothing.
C10_Shutdown ==
    (starts > 0 /\ timer = 0) =>
        /\ nearbyTimer = 0
        /\ unsubscribes = 0
        /\ vesselData = <<>>
        /\ cloudVessels = {}
        /\ lastOp.kind \in {"merge", "resume"} => lastOp.written = <<>>

C12_GetFailureIsContained ==
    [][lastOp'.kind = "getFailed" =>
          /\ vesselData' = vesselData
          /\ cloudVessels' = cloudVessels
          /\ bus' = bus
          /\ Len(fetches') = Len(fetches) - 1
          /\ Cardinality({k \in DOMAIN fetches' : fetches'[k].pc = "get"})
               = Cardinality({k \in DOMAIN fetches : fetches[k].pc = "get"}) - 1
          /\ timer' = timer
          /\ nearbyTimer' = nearbyTimer
          /\ submits' = submits]_vars

\* a GET has failed while the plugin runs with a registry, a cloud-provenance
\* set and a reporting cycle in flight
C12_Witness ==
    /\ lastOp.kind = "getFailed"
    /\ timer # 0 /\ nearbyTimer # 0
    /\ vesselData # <<>>
    /\ cloudVessels # {}
    /\ submits # <<>>

\* C13: whatever the settings, both timers run at the same interval of 1 to
\* 15 minutes and the search radius is 10 to 100 nautical miles; a setting
\* that is in range is used as it is.
C13_SettingsClamped ==
    /\ timer = nearbyTimer
    /\ timer # 0 => \E minutes \in 1..15 : timer = minutes * 60 * 1000
    /\ radiusNm \in 10..100
    /\ lastOp.kind = "start" =>
           /\ lastOp.settings.intervalMinutes \in 1..15 =>
                  timer = lastOp.settings.intervalMinutes * 60 * 1000
           /\ lastOp.settings.radiusNauticalMiles \in 10..100 =>
                  radiusNm = lastOp.settings.radiusNauticalMiles

\* the plugin has started with a negative interval and a radius above the limit
C13_Witness ==
    /\ lastOp.kind = "start"
    /\ lastOp.settings.intervalMinutes < 0
    /\ lastOp.settings.radiusNauticalMiles > 100
    /\ timer = 60 * 1000
    /\ radiusNm = 100

\* the timestamp of an incoming cloud record: that of its position, else that
\* of its navigation data, else the time t of the merge
IncomingTimestamp(cloudVessel, t) ==
    IF cloudVessel.last_position.present /\ cloudVessel.last_position.timestamp # 0
    THEN cloudVessel.last_position.timestamp
    ELSE IF cloudVessel.latest_navigation.present
            /\ cloudVessel.latest_navigation.timestamp # 0
         THEN cloudVessel.latest_navigation.timestamp
         ELSE t

\* C14 (cloud over cloud): a merge of one incoming record for a vessel whose
\* record is cloud-tagged replaces the record when its lastUpdate is less
\* than 2 minutes old, whatever the incoming timestamp; when it is 2 minutes
\* old or more, the merge replaces it if the incoming timestamp is strictly
\* newer than lastUpdate and leaves it unchanged otherwise.  A replacing
\* record has the incoming timestamp as lastUpdate.
C14_CloudOverCloud ==
    [][(/\ lastOp'.kind = "merge"
        /\ Len(lastOp'.list) = 1
        /\ Has(vesselData, VesselIdOf(lastOp'.list[1].mmsi))
        /\ CloudTagged(VesselIdOf(lastOp'.list[1].mmsi))) =>
          LET incoming == lastOp'.list[1]
              id == VesselIdOf(incoming.mmsi)
              existing == Get(vesselData, id)
              replaces == \/ now - existing.lastUpdate < 2 * 60 * 1000
                          \/ IncomingTimestamp(incoming, now) > existing.lastUpdate
          IN /\ Has(vesselData', id)
             /\ replaces =>
                    /\ lastOp'.written = <<id>>
                    /\ Get(vesselData', id).lastUpdate = IncomingTimestamp(incoming, now)
                    /\ Get(vesselData', id).isCloudVessel
                    /\ id \in cloudVessels'
             /\ ~replaces =>
                    /\ lastOp'.written = <<>>
                    /\ Get(vesselData', id) = existing]_vars

\* a merge has left alone a cloud record that is 2 minutes old or more
C14_Witness ==
    /\ lastOp.kind = "merge"
    /\ lastOp.counts.skipped = 1
    /\ lastOp.written = <<>>
    /\ \E k \in DOMAIN vesselData :
           /\ vesselData[k].isCloudVessel
           /\ now - vesselData[k].lastUpdate >= 2 * 60 * 1000
           /\ IncomingTimestamp(lastOp.list[1], now) <= vesselData[k].lastUpdate

\* C15: an ingest event that passes the throttle and writes no field leaves
\* the record's lastUpdate as it was; one that writes a field sets lastUpdate
\* to the timestamp of the event, or to the processing time when the event
\* has none.
C15_LastUpdateFollowsWrites ==
    [][(lastOp'.kind \in {"ingest", "deliver"} /\ lastOp'.accepted) =>
          LET after == Get(vesselData', lastOp'.id)
              timestamp == lastOp'.delta.updates[1].timestamp
          IN /\ (lastOp'.updateCount = 0 /\ Has(vesselData, lastOp'.id)) =>
                    after.lastUpdate = Get(vesselData, lastOp'.id).lastUpdate
             /\ lastOp'.updateCount > 0 =>
                    after.lastUpdate = IF timestamp # 0 THEN timestamp ELSE now]_vars

\* C16: when the filter of a reporting cycle has run, no record of the
\* registry is older than 24 hours, has an invalid identifier or has an empty
\* field set, and the cloud-provenance set names no such record.
C16_FilterDeletesWhatItExcludes ==
    FilterRan(lastOp) =>
        /\ \A k \in DOMAIN vesselData :
               /\ ~OlderThanADay(vesselData[k], now)
               /\ ~InvalidId(vesselData[k].id)
               /\ DOMAIN vesselData[k].data # {}
        /\ \A id \in cloudVessels : Has(vesselData, id)

\* C17: every batch submission attempt of a reporting cycle but the first
\* comes straight after a delay step, whether the batch before it succeeded
\* or failed.
C17_DelayBeforeEveryLaterBatch ==
    (lastOp.kind = "post" /\ lastOp.n > 0) => lastOp.via = "delay"

\* C18: a run of the merge loop, from the start of the cycle or from the end
\* of a pause, ends in a pause exactly when it has written pauseEvery vessels
\* to the registry, whether they were created or replaced.
C18_PauseAfterEveryFiftyWritten ==
    lastOp.kind \in {"merge", "resume"} =>
        /\ Len(lastOp.written) <= pauseEvery
        /\ lastOp.paused <=> Len(lastOp.written) = pauseEvery

\* C19: every delta that sendVesselData hands to the bus carries only the
\* paths of the whitelist (position, speed over ground, course over ground
\* true, heading true, rate of turn, mmsi), never a static field; and when
\* the bus call throws for a vessel, every vessel of the response that the
\* loop has reached is still merged, and re-injected unless its own bus call
\* threw, and the loop stops before the end of the response only to pause.
C19_WhitelistedBestEffort ==
    [][lastOp'.kind \in {"merge", "resume"} =>
          /\ \A delta \in bus' \ bus :
                 \A k \in DOMAIN delta.updates[1].values :
                     delta.updates[1].values[k].path \in
                         {"navigation.position", "navigation.speedOverGround",
                          "navigation.courseOverGroundTrue", "navigation.headingTrue",
                          "navigation.rateOfTurn", "mmsi"}
          /\ \A k \in 1..lastOp'.n :
                 LET id == VesselIdOf(lastOp'.list[k].mmsi)
                 IN ~Has(vesselData, id) =>
                        /\ Has(vesselData', id)
                        /\ id \in cloudVessels'
                        /\ id \notin lastOp'.throws =>
                               \E delta \in bus' : delta.context = <<VESSELS>> \o id
          /\ lastOp'.n < Len(lastOp'.list) => lastOp'.paused]_vars

\* the bus call threw for the first vessel written; the second, which has a
\* name and a navigation state, was merged and re-injected all the same
C19_Witness ==
    /\ lastOp.kind = "merge"
    /\ Len(lastOp.written) >= 2
    /\ lastOp.written[1] \in lastOp.throws
    /\ lastOp.written[2] \notin lastOp.throws
    /\ {"name", "navigation.state"} \subseteq DOMAIN Get(vesselData, lastOp.written[2]).data
    /\ \E delta \in bus :
           /\ delta.context = <<VESSELS>> \o lastOp.written[2]
           /\ Len(delta.updates[1].values) >= 4

\* C20: a cloud-sync cycle issues exactly one GET request when the own
\* position is a latitude/longitude pair (coordinates 0 included) and the
\* MMSI or the UUID of the own vessel is available; otherwise it issues none
\* and leaves the registry and the cloud-provenance set unchanged.
C20_RequestIffPositionAndIdentifier ==
    [][lastOp'.kind \in {"get", "getNone"} =>
          LET env == lastOp'.env
              position == ~env.positionThrows /\ env.position.t = "{latitude,longitude}"
              identifier == (~env.mmsiThrows /\ env.mmsi # <<>>) \/ env.selfId # <<>>
          IN /\ vesselData' = vesselData /\ cloudVessels' = cloudVessels
             /\ Len(fetches') = Len(fetches) + (IF position /\ identifier THEN 1 ELSE 0)]_vars

\* C21 (provenance consistency): wherever a task can be suspended, an
\* identifier is in the cloud-provenance set if and only if the registry
\* holds a record for it that carries the cloud flag.
C21_ProvenanceConsistent ==
    /\ \A id \in cloudVessels : Has(vesselData, id) /\ Get(vesselData, id).isCloudVessel
    /\ \A k \in DOMAIN vesselData :
           vesselData[k].isCloudVessel => vesselData[k].id \in cloudVessels

\* a merge that was paused when stop() ran has gone on to write a vessel
C21_Witness ==
    /\ lastOp.kind = "resume"
    /\ timer = 0
    /\ Len(lastOp.written) > 0
    /\ cloudVessels # {}

\* the record of id is one that a cloud merge created: it carries the cloud
\* flag and the cloud-provenance set names it
CreatedByCloud(reg, cloud, id) ==
    Has(reg, id) /\ Get(reg, id).isCloudVessel /\ id \in cloud

\* an ingest event leaves every record that a cloud merge created in the
\* registry, with its cloud flag and its entry of the cloud-provenance set
StickyUnderIngest ==
    lastOp'.kind \in {"ingest", "deliver"} =>
        \A k \in DOMAIN vesselData :
            CreatedByCloud(vesselData, cloudVessels, vesselData[k].id) =>
                CreatedByCloud(vesselData', cloudVessels', vesselData[k].id)

\* C22 as stated: ingest events never clear the cloud tag of a record that a
\* cloud merge created nor remove it from the cloud-provenance set, and no
\* batch is submitted that holds a vessel whose record in the registry is one
\* a cloud merge created.
C22_StickyAndExcluded ==
    [][/\ StickyUnderIngest
       /\ lastOp'.kind = "post" =>
              \A j \in DOMAIN lastOp'.batch :
                  ~CreatedByCloud(vesselData', cloudVessels', lastOp'.batch[j].id)]_vars

\* C22 as the code has it: ingest events never clear the cloud tag of a
\* record that a cloud merge created nor remove it from the cloud-provenance
\* set, and the active set of a reporting cycle, when the cycle takes it,
\* holds no vessel whose record is one a cloud merge created, whatever was
\* written into the record by ingest.  (A cycle that took its active set
\* before the cloud merge created the record submits the vessel all the
\* same.)
C22_StickyAndExcludedFromSnapshot ==
    [][/\ StickyUnderIngest
       /\ (lastOp'.kind = "post" /\ lastOp'.via = "tick") =>
              \A j \in DOMAIN submits'[Len(submits')].activeVessels :
                  ~CreatedByCloud(vesselData', cloudVessels',
                                  submits'[Len(submits')].activeVessels[j].rec.id)]_vars

\* a reporting cycle has taken its active set while the record that a cloud
\* merge created for vessel 5 held a position written by a local ingest event
C22_Witness ==
    /\ lastOp.kind = "post"
    /\ lastOp.via = "tick"
    /\ CreatedByCloud(vesselData, cloudVessels, <<URN, "5">>)
    /\ "navigation.position" \in DOMAIN Get(vesselData, <<URN, "5">>).data
    /\ Get(vesselData, <<URN, "5">>).data["navigation.position"].value = Position(1, 1)
    /\ Get(vesselData, <<URN, "5">>).data["navigation.position"].source
           \notin {CLOUD_SOURCE, CLOUD_LABEL}

\* the paths for which a vessel of a nearby response supplies a value
SuppliedPaths(cloudVessel) ==
    LET nav == cloudVessel.latest_navigation
        supplied(v) == nav.present /\ v.t \notin {"null", "undefined"}
    IN {path \in {"name"} : Truthy(cloudVessel.name)}
       \cup {path \in {"communication.callsignVhf"} : Truthy(cloudVessel.call_sign)}
       \cup {path \in {"registrations.imo"} : Truthy(cloudVessel.imo_number)}
       \cup {path \in {"design.length"} : Truthy(cloudVessel.design_length)}
       \cup {path \in {"design.beam"} : Truthy(cloudVessel.design_beam)}
       \cup {path \in {"design.draft"} : Truthy(cloudVessel.design_draft)}
       \cup {path \in {"navigation.position"} : cloudVessel.last_position.present}
       \cup {path \in {"navigation.courseOverGroundTrue"} : supplied(nav.course_over_ground)}
       \cup {path \in {"navigation.speedOverGround"} : supplied(nav.speed_over_ground)}
       \cup {path \in {"navigation.headingTrue"} : supplied(nav.heading)}
       \cup {path \in {"navigation.rateOfTurn"} : supplied(nav.rate_of_turn)}
       \cup {path \in {"navigation.state"} : supplied(nav.navigation_status)}

\* C23 (whole-record replacement): after a cloud merge, the record of every
\* vessel the merge accepted holds exactly the fields the incoming record
\* supplies, each with the cloud source, whatever the record held before; the
\* record of every other identifier is as it was, and no other record exists.
C23_MergeReplacesWholeRecord ==
    [][lastOp'.kind \in {"merge", "resume"} =>
          LET written == {lastOp'.written[k] : k \in DOMAIN lastOp'.written}
          IN /\ \A k \in 1..lastOp'.n :
                    LET incoming == lastOp'.list[k]
                        id == VesselIdOf(incoming.mmsi)
                    IN id \in written =>
                           /\ Has(vesselData', id)
                           /\ DOMAIN Get(vesselData', id).data = SuppliedPaths(incoming)
                           /\ \A path \in SuppliedPaths(incoming) :
                                  Get(vesselData', id).data[path].source = CLOUD_SOURCE
             /\ \A id \in Keys(vesselData) \ written :
                    Has(vesselData', id) /\ Get(vesselData', id) = Get(vesselData, id)
             /\ Keys(vesselData') \subseteq Keys(vesselData) \cup written]_vars

\* a merge has replaced a cloud-created record that held a position written
\* by a local ingest event with a record that has no position, and has left
\* the local record of the other vessel alone
C23_Witness ==
    /\ lastOp.kind = "merge"
    /\ lastOp.written = << <<URN, "1">> >>
    /\ lastOp.counts.updated = 1
    /\ <<URN, "1">> \in DOMAIN hist
    /\ "navigation.position" \notin DOMAIN Get(vesselData, <<URN, "1">>).data
    /\ "navigation.speedOverGround" \in DOMAIN Get(vesselData, <<URN, "1">>).data
    /\ lastOp.counts.localDataPreferred = 1

====
